---- MODULE Spec2Model ----
(***************************************************************************)
(* Model of package testerr (src/testerr/testerr.go): Diff, DiffMessage,   *)
(* Func.ErrDiff and the Want factories Is, As, Equals and Contains.        *)
(*                                                                         *)
(* Strings are sequences of symbols.  A symbol is either one of the        *)
(* characters that fmt and strconv treat specially ("%", "[", "]", a       *)
(* digit, a verb letter, a double quote, a backslash) or a run of ordinary *)
(* characters that is never split ("got error ", "uh oh", ...).            *)
(*                                                                         *)
(* An error value is the sequence of the layers of its Unwrap chain,       *)
(* outermost first; the nil error is the empty sequence.  A layer records  *)
(* the dynamic type, the value compared by == (the address for a pointer   *)
(* type, the field for a struct type) and the text of the layer.           *)
(***************************************************************************)
EXTENDS Naturals, Sequences, FiniteSets

VARIABLES want, call, pc, cgot, target, cres

vars == <<want, call, pc, cgot, target, cres>>

\* Deepest chain of fmt.Errorf("wrapped(%w)", ...) around a base error.
MaxWrap == 2
\* Number of goroutines that share one Want in SpecConc.
NumCallers == 2

EmptyStr == <<>>
NilErr == <<>>

-----------------------------------------------------------------------------
(* The dynamic types of the observed errors.                               *)

ErrorStringT == "*errors.errorString"
WrapErrorT == "*fmt.wrapError"
MyErrorT == "testerr_test.myError"
\* type sliceErr []string: an error type whose values cannot be compared.
SliceErrT == "testerr_test.sliceErr"
\* An error type with a method Is(target error) bool that reports whether
\* the target has the same message (as a gRPC status error does for codes).
MsgEqErrT == "*testerr_test.msgEqError"
\* An error type with a method As(any) bool that fills a *myError target.
AsErrT == "*testerr_test.asError"
\* An error type that implements the interface type TimeoutT.
NetErrT == "*testerr_test.netError"
\* The interface type interface{ error; Timeout() bool }.
TimeoutT == "testerr_test.timeouter"

Layer(t, v, s) == [typ |-> t, val |-> v, text |-> s]

errUhOh == <<Layer(ErrorStringT, 1, <<"uh", " oh">>)>>
\* A second errors.New("uh oh"): same message, another pointer.
errUhOhTwin == <<Layer(ErrorStringT, 2, <<"uh", " oh">>)>>
errOther == <<Layer(ErrorStringT, 3, <<"something else">>)>>
MyError(v) ==
    <<Layer(MyErrorT, v,
            <<"val ", IF v = 42 THEN "42" ELSE IF v = 43 THEN "43" ELSE "0",
              " is not good">>)>>
err42 == MyError(42)
err43 == MyError(43)
errSlice == <<Layer(SliceErrT, 1, <<"slice">>)>>
errMsgEq == <<Layer(MsgEqErrT, 1, <<"uh", " oh">>)>>
errAs == <<Layer(AsErrT, 1, <<"as ", "%", "v">>)>>
errNet == <<Layer(NetErrT, 1, <<"timeout">>)>>

BaseErrs ==
    {errUhOh, errUhOhTwin, errOther, err42, err43, errSlice, errMsgEq, errAs,
     errNet}

\* fmt.Errorf("wrapped(%w)", e): a fresh *fmt.wrapError around e.  One
\* allocation is modelled per wrapped error, so its address is its depth.
Wrap(e) == <<Layer(WrapErrorT, Len(e), EmptyStr)>> \o e

RECURSIVE WrapN(_, _)
WrapN(e, n) == IF n = 0 THEN e ELSE Wrap(WrapN(e, n - 1))

errWrapped == Wrap(errUhOh)

\* The observed errors: nil, the base errors and their wrappings.
Errs == {NilErr} \cup {WrapN(b, n) : b \in BaseErrs, n \in 0..MaxWrap}

Unwrap(e) == Tail(e)

\* err.Error()
RECURSIVE ErrorMsg(_)
ErrorMsg(e) ==
    IF Head(e).typ = WrapErrorT
    THEN <<"wrapped(">> \o ErrorMsg(Unwrap(e)) \o <<")">>
    ELSE Head(e).text

Comparable(t) == t # SliceErrT

\* The Go expression a == b on two error interface values: "true", "false",
\* or "panic" (runtime error: comparing uncomparable type).
GoEq(a, b) ==
    IF a = NilErr \/ b = NilErr THEN (IF a = b THEN "true" ELSE "false")
    ELSE IF Head(a).typ # Head(b).typ THEN "false"
    ELSE IF ~Comparable(Head(a).typ) THEN "panic"
    ELSE IF a = b THEN "true" ELSE "false"

\* The method Is(target error) bool of the layer at the head of e, for the
\* types that have one.
HasIsMethod(e) == Head(e).typ = MsgEqErrT
IsMethod(e, t) == ErrorMsg(t) = Head(e).text

\* errors.Is that compares err with target and never unwraps.
ErrorsIsNoUnwrap(e, t) == e = t

\* The loop of errors.Is over the chain of err.
RECURSIVE IsChain(_, _, _)
IsChain(e, t, isComparable) ==
    IF e = NilErr THEN FALSE
    ELSE IF isComparable /\ GoEq(e, t) = "true" THEN TRUE
    ELSE IF HasIsMethod(e) /\ IsMethod(e, t) THEN TRUE
    ELSE IsChain(Unwrap(e), t, isComparable)

\* errors.Is(err, target)
ErrorsIs(e, t) ==
    IF e = NilErr \/ t = NilErr THEN e = t
    ELSE IsChain(e, t, Comparable(Head(t).typ))

\* Whether a value of dynamic type t is assignable to a variable of type T.
AssignableTo(t, T) == t = T \/ (T = TimeoutT /\ t = NetErrT)

\* The method As(any) bool of the layer at the head of e: it accepts a
\* *myError target and stores myError{42} in it.
HasAsMethod(e) == Head(e).typ = AsErrT
AsMethodAccepts(e, T) == T = MyErrorT
AsMethodValue(e) == err42

NoTarget == [ok |-> FALSE, val |-> NilErr]

\* errors.As(err, &target) for a target of type T: whether it succeeded and
\* the value stored in target.
RECURSIVE ErrorsAs(_, _)
ErrorsAs(e, T) ==
    IF e = NilErr THEN NoTarget
    ELSE IF AssignableTo(Head(e).typ, T) THEN [ok |-> TRUE, val |-> e]
    ELSE IF HasAsMethod(e) /\ AsMethodAccepts(e, T)
         THEN [ok |-> TRUE, val |-> AsMethodValue(e)]
    ELSE ErrorsAs(Unwrap(e), T)

\* var target T: the zero value of T, as an error value.  The zero value of
\* an interface type is nil.
ZeroValue(T) == IF T = TimeoutT THEN NilErr ELSE MyError(0)

-----------------------------------------------------------------------------
(* Package fmt, as far as DiffMessage uses it.                             *)

\* A value of type any in an argument list: an error (possibly nil) or a
\* string.
ErrArg(e) == [k |-> "err", e |-> e, s |-> EmptyStr]
StrArg(s) == [k |-> "str", e |-> NilErr, s |-> s]

IsNilArg(x) == x.k = "err" /\ x.e = NilErr

\* reflect.TypeOf(x).String()
TypeName(x) == IF x.k = "str" THEN "string" ELSE Head(x.e).typ

\* strconv.Quote: the text in double quotes, with quotes and backslashes
\* escaped.
RECURSIVE QuoteBody(_)
QuoteBody(s) ==
    IF s = EmptyStr THEN EmptyStr
    ELSE (IF Head(s) \in {"\"", "\\"} THEN <<"\\", Head(s)>> ELSE <<Head(s)>>)
         \o QuoteBody(Tail(s))

Quote(s) == <<"\"">> \o QuoteBody(s) \o <<"\"">>

\* What the string verbs print for x: an error prints as its Error().
ArgText(x) == IF x.k = "str" THEN x.s ELSE ErrorMsg(x.e)

\* (*pp).printArg(arg, verb)
PrintArg(x, verb) ==
    IF IsNilArg(x)
    THEN (IF verb \in {"T", "v"} THEN <<"<nil>">>
          ELSE <<"%!", verb, "(", "<nil>", ")">>)
    ELSE IF verb = "T" THEN <<TypeName(x)>>
    ELSE IF verb \in {"v", "s"} THEN ArgText(x)
    ELSE IF verb = "q" THEN Quote(ArgText(x))
    ELSE <<"%!", verb, "(", TypeName(x), "=">> \o ArgText(x) \o <<")">>

Digits == {"1", "2", "3"}
DigitVal(d) == IF d = "1" THEN 1 ELSE IF d = "2" THEN 2 ELSE 3

\* The arguments left over: "%!(EXTRA type=value, ...)".
RECURSIVE ExtraArgs(_, _)
ExtraArgs(a, n) ==
    IF n > Len(a) THEN EmptyStr
    ELSE (IF IsNilArg(a[n]) THEN <<"<nil>">>
          ELSE <<TypeName(a[n]), "=">> \o PrintArg(a[n], "v"))
         \o (IF n < Len(a) THEN <<", ">> ELSE EmptyStr)
         \o ExtraArgs(a, n + 1)

Extra(a, argNum, reordered) ==
    IF ~reordered /\ argNum <= Len(a)
    THEN <<"%!(EXTRA ">> \o ExtraArgs(a, argNum) \o <<")">>
    ELSE EmptyStr

\* One verb whose letter is at position i, with the argument number argNum
\* (from 1): the text printed and the next argument number.
Verb(f, a, i, argNum, goodArgNum) ==
    IF f[i] = "%" THEN [out |-> <<"%">>, argNum |-> argNum]
    ELSE IF ~goodArgNum
         THEN [out |-> <<"%!", f[i], "(BADINDEX)">>, argNum |-> argNum]
    ELSE IF argNum > Len(a)
         THEN [out |-> <<"%!", f[i], "(MISSING)">>, argNum |-> argNum]
    ELSE [out |-> PrintArg(a[argNum], f[i]), argNum |-> argNum + 1]

\* (*pp).doPrintf from position i of the format.  An explicit argument
\* index is written "[", digit, "]".
RECURSIVE DoPrintf(_, _, _, _, _)
DoPrintf(f, a, i, argNum, reordered) ==
    IF i > Len(f) THEN Extra(a, argNum, reordered)
    ELSE IF f[i] # "%" THEN <<f[i]>> \o DoPrintf(f, a, i + 1, argNum, reordered)
    ELSE IF i + 1 > Len(f) THEN <<"%!(NOVERB)">> \o Extra(a, argNum, reordered)
    ELSE IF f[i + 1] = "["
    THEN LET wellFormed == i + 3 <= Len(f) /\ f[i + 2] \in Digits
                                /\ f[i + 3] = "]"
             index == IF wellFormed THEN DigitVal(f[i + 2]) ELSE 0
             good == wellFormed /\ index <= Len(a)
             at == IF wellFormed THEN i + 4 ELSE i + 2
         IN  IF at > Len(f) THEN <<"%!(NOVERB)">>
             ELSE LET v == Verb(f, a, at, IF good THEN index ELSE argNum, good)
                  IN  v.out \o DoPrintf(f, a, at + 1, v.argNum, TRUE)
    ELSE LET v == Verb(f, a, i + 1, argNum, TRUE)
         IN  v.out \o DoPrintf(f, a, i + 2, v.argNum, reordered)

\* fmt.Sprintf(format, a...)
Sprintf(f, a) == DoPrintf(f, a, 1, 1, FALSE)

\* strings.Contains(s, substr)
StringsContains(s, substr) ==
    \E i \in 0..Len(s) :
        /\ i + Len(substr) <= Len(s)
        /\ \A j \in 1..Len(substr) : s[i + j] = substr[j]

-----------------------------------------------------------------------------
(* Package testerr.                                                        *)

\* The two halves of fmt.Sprintf("got error %%v; want %s", wantFormat).
FormatOf(wantFormat) ==
    Sprintf(<<"got error ", "%", "%", "v", "; want ", "%", "s">>,
            <<StrArg(wantFormat)>>)

\* func DiffMessage(got error, wantFormat string, a ...any) string
DiffMessage(got, wantFormat, a) ==
    Sprintf(FormatOf(wantFormat), <<ErrArg(got)>> \o a)

\* What a call returns: the string, or a panic that reaches the caller;
\* matched records whether the refinement function of As was invoked.
Returned(s) == [panic |-> FALSE, out |-> s, matched |-> FALSE]
Panicked == [panic |-> TRUE, out |-> EmptyStr, matched |-> FALSE]

\* The refinement functions handed to As: want42 of the example, one that
\* accepts every value and one whose description holds a format verb.
MatchFns == {"want42", "accept", "percent"}

Match(m, t) ==
    IF m = "want42"
    THEN (IF Head(t).val # 42 THEN <<"42 (of course)">> ELSE EmptyStr)
    ELSE IF m = "accept" THEN EmptyStr
    ELSE <<"100", "%", "v", " sure">>

\* A Want is nil or the closure a factory returns, with what it captured.
NilWant ==
    [kind |-> "nil", err |-> NilErr, substr |-> EmptyStr, T |-> "", match |-> ""]
Is(t) == [NilWant EXCEPT !.kind = "Is", !.err = t]
As(T, m) == [NilWant EXCEPT !.kind = "As", !.T = T, !.match = m]
Equals(w) == [NilWant EXCEPT !.kind = "Equals", !.err = w]
Contains(sub) == [NilWant EXCEPT !.kind = "Contains", !.substr = sub]

\* The closure of Is.
IsFunc(t, got) ==
    IF ErrorsIs(got, t) THEN Returned(EmptyStr)
    ELSE Returned(DiffMessage(got, <<"error that Is() ", "%", "v">>,
                              <<ErrArg(t)>>))

\* The closure of As handing the description to DiffMessage as the format.
AsFinishAsFormat(T, m, got, ok, tv) ==
    IF ~ok
    THEN Returned(DiffMessage(got, <<"error tree containing type ", "%", "T">>,
                              <<ErrArg(tv)>>))
    ELSE IF Match(m, tv) # EmptyStr
         THEN [Returned(DiffMessage(got, Match(m, tv), <<>>))
                 EXCEPT !.matched = TRUE]
    ELSE [Returned(EmptyStr) EXCEPT !.matched = TRUE]

\* The closure of As after errors.As returned ok and left tv in target.
AsFinish(T, m, got, ok, tv) ==
    IF ~ok
    THEN Returned(DiffMessage(got, <<"error tree containing type ", "%", "T">>,
                              <<ErrArg(tv)>>))
    ELSE IF Match(m, tv) # EmptyStr
         THEN [Returned(DiffMessage(got, <<"%", "s">>, <<StrArg(Match(m, tv))>>))
                 EXCEPT !.matched = TRUE]
    ELSE [Returned(EmptyStr) EXCEPT !.matched = TRUE]

\* The closure of As without the test of what errors.As returned.
AsFuncUnchecked(T, m, got) ==
    LET r == ErrorsAs(got, T)
        tv == IF r.ok THEN r.val ELSE ZeroValue(MyErrorT)
    IN  IF Match(m, tv) # EmptyStr
        THEN [Returned(DiffMessage(got, <<"%", "s">>, <<StrArg(Match(m, tv))>>))
                EXCEPT !.matched = TRUE]
        ELSE [Returned(EmptyStr) EXCEPT !.matched = TRUE]

\* The closure of As.
AsFunc(T, m, got) ==
    LET r == ErrorsAs(got, T)
    IN  AsFinish(T, m, got, r.ok, IF r.ok THEN r.val ELSE ZeroValue(T))

\* The closure of Equals.
EqualsFunc(w, got) ==
    IF GoEq(got, w) = "panic" THEN Panicked
    ELSE IF GoEq(got, w) = "true" THEN Returned(EmptyStr)
    ELSE Returned(DiffMessage(got, <<"== ", "%", "v">>, <<ErrArg(w)>>))

\* The closure of Contains searching the printed error, nil included.
ContainsFuncPrinted(sub, got) ==
    IF StringsContains(PrintArg(ErrArg(got), "v"), sub)
    THEN Returned(EmptyStr)
    ELSE Returned(DiffMessage(got, <<"containing substring ", "%", "q">>,
                              <<StrArg(sub)>>))

\* The closure of Contains.
ContainsFunc(sub, got) ==
    IF got # NilErr /\ StringsContains(ErrorMsg(got), sub)
    THEN Returned(EmptyStr)
    ELSE Returned(DiffMessage(got, <<"containing substring ", "%", "q">>,
                              <<StrArg(sub)>>))

\* func (fn Func) ErrDiff(got error) string
ErrDiff(w, got) ==
    IF w.kind = "Is" THEN IsFunc(w.err, got)
    ELSE IF w.kind = "As" THEN AsFunc(w.T, w.match, got)
    ELSE IF w.kind = "Equals" THEN EqualsFunc(w.err, got)
    ELSE ContainsFunc(w.substr, got)

\* Diff with a nil Want accepting every error.
DiffNilAcceptsAll(got, w) ==
    IF w = NilWant THEN Returned(EmptyStr) ELSE ErrDiff(w, got)

\* func Diff(got error, want Want) string
Diff(got, w) ==
    IF w = NilWant
    THEN (IF got = NilErr THEN Returned(EmptyStr)
          ELSE Returned(DiffMessage(got, <<"nil">>, <<>>)))
    ELSE ErrDiff(w, got)

-----------------------------------------------------------------------------
(* The inputs of the calls.                                                *)

Substrs ==
    {EmptyStr, <<"uh">>, <<"uh", " oh">>, <<"foobar">>, <<"wrapped(">>,
     <<"<nil>">>, <<"%", "v">>, <<"say ", "\"", "hi", "\"">>}

AsTypes == {MyErrorT, TimeoutT}

BuiltWants ==
    {Equals(e) : e \in Errs} \cup {Is(e) : e \in Errs}
        \cup {Contains(sub) : sub \in Substrs}
        \cup {As(T, m) : T \in AsTypes, m \in MatchFns}

Templates ==
    {<<"nil">>,
     <<"== ", "%", "v">>,
     <<"%", "s">>,
     <<"containing substring ", "%", "q">>,
     <<"error tree containing type ", "%", "T">>,
     <<"100", "%", "%">>,
     <<"%", "v", " then ", "%", "v">>,
     <<"%", "[", "1", "]", "v">>,
     <<"%", "[", "2", "]", "s">>,
     <<"odd ", "%">>}

ArgLists ==
    {<<>>,
     <<StrArg(<<"x">>)>>,
     <<StrArg(<<"a", "\"", "b", "\\">>)>>,
     <<ErrArg(errUhOh)>>,
     <<ErrArg(NilErr)>>,
     <<StrArg(<<"x">>), ErrArg(err42)>>}

Callers == 1..NumCallers

\* The Wants and observed errors of the concurrent calls.
ConcWants ==
    {As(T, m) : T \in AsTypes, m \in MatchFns}
        \cup {NilWant, Is(errUhOh), Equals(errSlice), Contains(<<"uh">>)}

ConcErrs == {NilErr, errUhOh, err42, err43, Wrap(err43), errSlice, errNet}

-----------------------------------------------------------------------------
(* The test loop of one goroutine: a test case builds its Want, calls Diff *)
(* on it (or DiffMessage directly) and the loop moves to the next case.    *)

NoCall ==
    [op |-> "none", got |-> NilErr, tmpl |-> EmptyStr, args |-> <<>>,
     res |-> Returned(EmptyStr)]

Idle == [p \in Callers |-> "idle"]
NoGots == [p \in Callers |-> NilErr]
NoTargets == [p \in Callers |-> NilErr]
NoResults == [p \in Callers |-> Returned(EmptyStr)]

Init ==
    /\ want = NilWant
    /\ call = NoCall
    /\ pc = Idle
    /\ cgot = NoGots
    /\ target = NoTargets
    /\ cres = NoResults

NewEquals ==
    \E e \in Errs :
        /\ call.op = "none"
        /\ want' = Equals(e)
        /\ UNCHANGED <<call, pc, cgot, target, cres>>

NewIs ==
    \E e \in Errs :
        /\ call.op = "none"
        /\ want' = Is(e)
        /\ UNCHANGED <<call, pc, cgot, target, cres>>

NewContains ==
    \E sub \in Substrs :
        /\ call.op = "none"
        /\ want' = Contains(sub)
        /\ UNCHANGED <<call, pc, cgot, target, cres>>

NewAs ==
    \E T \in AsTypes, m \in MatchFns :
        /\ call.op = "none"
        /\ want' = As(T, m)
        /\ UNCHANGED <<call, pc, cgot, target, cres>>

CallDiff ==
    \E g \in Errs :
        /\ call.op \in {"none", "Diff"}
        /\ call' = [NoCall EXCEPT !.op = "Diff", !.got = g, !.res = Diff(g, want)]
        /\ UNCHANGED <<want, pc, cgot, target, cres>>

CallDiffMessage ==
    \E g \in Errs, t \in Templates, a \in ArgLists :
        /\ call.op = "none"
        /\ want = NilWant
        /\ call' = [op |-> "DiffMessage", got |-> g, tmpl |-> t, args |-> a,
                    res |-> Returned(DiffMessage(g, t, a))]
        /\ UNCHANGED <<want, pc, cgot, target, cres>>

NextCase ==
    /\ call.op # "none"
    /\ call' = NoCall
    /\ want' = NilWant
    /\ UNCHANGED <<pc, cgot, target, cres>>

Next ==
    \/ NewEquals
    \/ NewIs
    \/ NewContains
    \/ NewAs
    \/ CallDiff
    \/ CallDiffMessage
    \/ NextCase

Spec == Init /\ [][Next]_vars

-----------------------------------------------------------------------------
(* Goroutines that call Diff on one shared Want.  A call of the closure of *)
(* As is two steps, errors.As writing target and the rest reading it; the  *)
(* other closures touch no variable and are one step.                      *)

\* var target T declared in As itself: one variable for all calls.
TargetSlotShared(p) == 1

\* var target T is declared inside the closure: each call has its own.
TargetSlot(p) == p

InitConc ==
    /\ want \in ConcWants
    /\ call = NoCall
    /\ pc = Idle
    /\ cgot = NoGots
    /\ target = NoTargets
    /\ cres = NoResults

\* Diff is entered; the closure of As declares its target.
Enter(p) ==
    \E g \in ConcErrs :
        /\ pc[p] = "idle"
        /\ pc' = [pc EXCEPT ![p] = "called"]
        /\ cgot' = [cgot EXCEPT ![p] = g]
        /\ target' = IF want.kind = "As"
                     THEN [target EXCEPT ![TargetSlot(p)] = ZeroValue(want.T)]
                     ELSE target
        /\ UNCHANGED <<want, call, cres>>

\* errors.As(got, &target)
Extract(p) ==
    /\ pc[p] = "called"
    /\ want.kind = "As"
    /\ LET r == ErrorsAs(cgot[p], want.T)
       IN  /\ pc' = [pc EXCEPT ![p] = IF r.ok THEN "found" ELSE "notfound"]
           /\ target' = IF r.ok
                        THEN [target EXCEPT ![TargetSlot(p)] = r.val]
                        ELSE target
    /\ UNCHANGED <<want, call, cgot, cres>>

\* The rest of the closure of As, which reads target.
Finish(p) ==
    /\ pc[p] \in {"found", "notfound"}
    /\ cres' = [cres EXCEPT
                  ![p] = AsFinish(want.T, want.match, cgot[p], pc[p] = "found",
                                  target[TargetSlot(p)])]
    /\ pc' = [pc EXCEPT ![p] = "done"]
    /\ UNCHANGED <<want, call, cgot, target>>

\* Diff with a nil Want, or the closure of Is, Equals or Contains.
Return(p) ==
    /\ pc[p] = "called"
    /\ want.kind # "As"
    /\ cres' = [cres EXCEPT ![p] = Diff(cgot[p], want)]
    /\ pc' = [pc EXCEPT ![p] = "done"]
    /\ UNCHANGED <<want, call, cgot, target>>

\* The caller has used the result and is ready for its next call.
Again(p) ==
    /\ pc[p] = "done"
    /\ pc' = [pc EXCEPT ![p] = "idle"]
    /\ cgot' = [cgot EXCEPT ![p] = NilErr]
    /\ cres' = [cres EXCEPT ![p] = Returned(EmptyStr)]
    /\ UNCHANGED <<want, call, target>>

NextConc ==
    \E p \in Callers :
        \/ Enter(p)
        \/ Extract(p)
        \/ Finish(p)
        \/ Return(p)
        \/ Again(p)

SpecConc == InitConc /\ [][NextConc]_vars

-----------------------------------------------------------------------------
(* What the claims speak of, stated without the operators above.           *)

\* The errors of the chain of g: g itself and what repeated Unwrap yields.
Chain(g) == {SubSeq(g, k, Len(g)) : k \in 1..Len(g)}

\* t is g itself or is reached from g by repeated unwrapping.
InChain(g, t) == g = t \/ t \in Chain(g)

\* Some error of the chain of g has a method Is that accepts t.
CustomIsAccepts(g, t) ==
    t # NilErr /\ \E e \in Chain(g) : HasIsMethod(e) /\ IsMethod(e, t)

\* The errors of the chain of g whose type is T or implements T.
OfType(g, T) == {e \in Chain(g) : AssignableTo(Head(e).typ, T)}

\* The outermost of them.
FirstOfType(g, T) ==
    CHOOSE e \in OfType(g, T) : \A o \in OfType(g, T) : Len(o) <= Len(e)

\* The text printing an error gives.
Rendering(e) == IF e = NilErr THEN <<"<nil>">> ELSE ErrorMsg(e)

IsSubstring(sub, s) ==
    \E i \in 1..(Len(s) + 1) :
        /\ i + Len(sub) <= Len(s) + 1
        /\ SubSeq(s, i, i + Len(sub) - 1) = sub

\* "got error <got>; want <description>"
Canonical(g, description) ==
    <<"got error ">> \o Rendering(g) \o <<"; want ">> \o description

DiffOf(kind) == call.op = "Diff" /\ want.kind = kind

IsEmpty(r) == ~r.panic /\ r.out = EmptyStr
IsDiagnostic(r) == ~r.panic /\ r.out # EmptyStr

-----------------------------------------------------------------------------
(* The claims.                                                             *)

\* C1: with a nil Want, Diff returns the empty string exactly when got is
\* nil, and otherwise "got error <got>; want nil".
C1_DiffNilWant ==
    DiffOf("nil") =>
        /\ IsEmpty(call.res) <=> call.got = NilErr
        /\ call.got # NilErr =>
               /\ ~call.res.panic
               /\ call.res.out = Canonical(call.got, <<"nil">>)

C1_Witness ==
    /\ DiffOf("nil")
    /\ call.got = errWrapped
    /\ call.res.out = <<"got error ", "wrapped(", "uh", " oh", ")", "; want ",
                        "nil">>

\* C2: Diff(got, Is(t)) is empty when got is t or t is reached from got by
\* repeated unwrapping, and is "got error <got>; want error that Is() <t>"
\* when got is a distinct error whose chain does not contain t.
C2_IsChainMembership ==
    DiffOf("Is") =>
        /\ InChain(call.got, want.err) => IsEmpty(call.res)
        /\ ~InChain(call.got, want.err) =>
               /\ ~call.res.panic
               /\ call.res.out =
                      Canonical(call.got,
                                <<"error that Is() ">> \o Rendering(want.err))

\* C2 as amended: the same for a target of a comparable type (or nil), and,
\* for the diagnostic, when no error of the chain of got has a method Is
\* that accepts t.
C2_IsChainMembershipAmended ==
    DiffOf("Is") =>
        /\ ~call.res.panic
        /\ (/\ InChain(call.got, want.err)
            /\ (want.err = NilErr \/ Comparable(Head(want.err).typ)))
               => call.res.out = EmptyStr
        /\ (~InChain(call.got, want.err)
              /\ ~CustomIsAccepts(call.got, want.err))
               => call.res.out =
                      Canonical(call.got,
                                <<"error that Is() ">> \o Rendering(want.err))

C2_Witness ==
    /\ DiffOf("Is")
    /\ want.err = errUhOh
    /\ call.got = Wrap(errWrapped)
    /\ call.res.out = EmptyStr

\* C3: when got or an error it wraps has type T, the closure of As passes
\* it to match; Diff is empty exactly when match returns the empty string,
\* and otherwise is "got error <got>; want <d>" with d as match returned it.
C3_AsExtracted ==
    (DiffOf("As") /\ OfType(call.got, want.T) # {}) =>
        LET d == Match(want.match, FirstOfType(call.got, want.T))
        IN  /\ ~call.res.panic
            /\ call.res.matched
            /\ call.res.out = EmptyStr <=> d = EmptyStr
            /\ d # EmptyStr => call.res.out = Canonical(call.got, d)

C3_Witness ==
    /\ DiffOf("As")
    /\ want.T = MyErrorT
    /\ want.match = "percent"
    /\ call.got = Wrap(err43)
    /\ call.res.out = <<"got error ", "wrapped(", "val ", "43", " is not good",
                        ")", "; want ", "100", "%", "v", " sure">>

\* C4: when no error of the chain of got (nil included) has type T, Diff is
\* "got error <got>; want error tree containing type <name of T>" and match
\* is not invoked, whatever match is.
C4_AsNotExtracted ==
    (DiffOf("As") /\ OfType(call.got, want.T) = {}) =>
        /\ ~call.res.panic
        /\ ~call.res.matched
        /\ call.res.out =
               Canonical(call.got, <<"error tree containing type ", want.T>>)

\* C5: Diff(got, Contains(s)) is empty exactly when got is not nil and its
\* text contains s; Contains("") matches every error but nil, for which the
\* result is "got error <nil>; want containing substring """.
C5_Contains ==
    DiffOf("Contains") =>
        /\ IsEmpty(call.res) <=>
               (call.got # NilErr /\ IsSubstring(want.substr, ErrorMsg(call.got)))
        /\ (want.substr = EmptyStr /\ call.got # NilErr) => IsEmpty(call.res)
        /\ (want.substr = EmptyStr /\ call.got = NilErr) =>
               /\ ~call.res.panic
               /\ call.res.out = <<"got error ", "<nil>", "; want ",
                                   "containing substring ", "\"", "\"">>

C5_Witness ==
    /\ DiffOf("Contains")
    /\ want.substr = EmptyStr
    /\ call.got = NilErr
    /\ call.res.out # EmptyStr

\* C6: Diff(got, Equals(w)) is empty exactly when got is identical to w, and
\* otherwise is "got error <got>; want == <w>", also when got wraps w.
C6_EqualsExact ==
    DiffOf("Equals") =>
        /\ IsEmpty(call.res) <=> call.got = want.err
        /\ call.got # want.err =>
               /\ ~call.res.panic
               /\ call.res.out =
                      Canonical(call.got, <<"== ">> \o Rendering(want.err))

\* C7: Diff(nil, w) is a non-empty diagnostic for every Want w that Equals,
\* Is, Contains or As built, with whatever parameter.
C7_NilNeverAccepted ==
    (call.op = "Diff" /\ want # NilWant /\ call.got = NilErr)
        => IsDiagnostic(call.res)

\* C7 as amended: the same for every Want built by Contains or As, and by
\* Equals or Is with a parameter that is not nil; Equals(nil) and Is(nil)
\* accept the nil error.
C7_NilNeverAcceptedAmended ==
    (call.op = "Diff" /\ want # NilWant /\ call.got = NilErr) =>
        IF want.kind \in {"Equals", "Is"} /\ want.err = NilErr
        THEN IsEmpty(call.res)
        ELSE IsDiagnostic(call.res)

C7_Witness ==
    /\ DiffOf("Is")
    /\ want.err = errUhOh
    /\ call.got = NilErr
    /\ call.res.out = <<"got error ", "<nil>", "; want ", "error that Is() ",
                        "uh", " oh">>

\* C8: DiffMessage(got, template, args...) is "got error " + rendering of
\* got + "; want " + the template with args substituted in order; the
\* template consumes only args, never got.
C8_DiffMessageFormat ==
    call.op = "DiffMessage" =>
        call.res.out = Canonical(call.got, Sprintf(call.tmpl, call.args))

\* C9: Diff returns a string and never panics, for every observed error
\* and every Want built by Equals, Is, Contains or As.
C9_NeverPanics == call.op = "Diff" => ~call.res.panic

\* C10: every call of Diff on a shared Want, whatever calls run beside it,
\* returns what one call on a fresh Want returns for its observed error.
C10_CallsIndependent ==
    \A p \in Callers : pc[p] = "done" => cres[p] = Diff(cgot[p], want)

C10_Witness ==
    /\ want = As(MyErrorT, "want42")
    /\ pc[1] = "done"
    /\ cgot[1] = err43
    /\ cres[1].out = <<"got error ", "val ", "43", " is not good", "; want ",
                       "42 (of course)">>
    /\ pc[2] = "found"
    /\ cgot[2] = err42

====
